---- MODULE Spec2Model ----
(***************************************************************************)
(* Model of library_manager.py: the catalog store (LibraryManager) over    *)
(* its backing file.  Text is a sequence of one-character strings.  The    *)
(* backing file is a sequence of lines; a line is the JSON object that     *)
(* json.dumps writes for one book, kept as the mapping from its five keys   *)
(* to the JSON text of each value.  The two                                *)
(* status texts of the source are Cyrillic words; the module's strings are *)
(* ASCII, so each word is written transliterated, as one element of the    *)
(* text (json.dumps with ensure_ascii=False and json.loads copy such       *)
(* letters unchanged, and no operation looks inside a status).             *)
(***************************************************************************)
EXTENDS Integers, Sequences, FiniteSets

VARIABLES
    fileExists,   \* whether library_storage.json exists on disk
    file,         \* its lines, in file order (<<>> when absent or empty)
    lastOp,       \* the most recent call of the store: arguments and outcome
    prevExists,   \* fileExists when that call started
    prevFile,     \* file when that call started
    pc,           \* "idle", or the position inside _save_books
    saveBooks,    \* _save_books: the books passed to the running save
    saveLeft,     \* _save_books: the books the loop has not yet written
    wbuf          \* _save_books: lines written but still in the file buffer

vars == <<fileExists, file, lastOp, prevExists, prevFile, pc, saveBooks, saveLeft, wbuf>>

\* Largest number of records the model lets the store hold.
MaxBooks == 2

(***************************************************************************)
(* Text helpers                                                            *)
(***************************************************************************)
Digits == <<"0", "1", "2", "3", "4", "5", "6", "7", "8", "9">>

IsDigitChar(c) == c \in {"0", "1", "2", "3", "4", "5", "6", "7", "8", "9"}

DigitVal(c) ==
    CASE c = "0" -> 0 [] c = "1" -> 1 [] c = "2" -> 2 [] c = "3" -> 3 [] c = "4" -> 4
      [] c = "5" -> 5 [] c = "6" -> 6 [] c = "7" -> 7 [] c = "8" -> 8 [] OTHER -> 9

\* str.lower(), one character
LowerChar(c) ==
    CASE c = "A" -> "a" [] c = "B" -> "b" [] c = "C" -> "c" [] c = "D" -> "d"
      [] c = "E" -> "e" [] c = "F" -> "f" [] c = "G" -> "g" [] c = "H" -> "h"
      [] c = "I" -> "i" [] c = "J" -> "j" [] c = "K" -> "k" [] c = "L" -> "l"
      [] c = "M" -> "m" [] c = "N" -> "n" [] c = "O" -> "o" [] c = "P" -> "p"
      [] c = "Q" -> "q" [] c = "R" -> "r" [] c = "S" -> "s" [] c = "T" -> "t"
      [] c = "U" -> "u" [] c = "V" -> "v" [] c = "W" -> "w" [] c = "X" -> "x"
      [] c = "Y" -> "y" [] c = "Z" -> "z" [] OTHER -> c

\* str.lower()
Lower(t) ==
    LET low[i \in 0..Len(t)] ==
            IF i = 0 THEN <<>> ELSE Append(low[i - 1], LowerChar(t[i]))
    IN  low[Len(t)]

\* the operator `in` on two str values: k occurs in t as a contiguous run
StrIn(k, t) ==
    \E i \in 1..(Len(t) - Len(k) + 1) : SubSeq(t, i, i + Len(k) - 1) = k

\* str.isdigit(): non-empty and every character a digit
IsDigit(k) == Len(k) > 0 /\ \A i \in 1..Len(k) : IsDigitChar(k[i])

\* int(s) for a string of digits
IntOfDigits(k) ==
    LET val[i \in 0..Len(k)] ==
            IF i = 0 THEN 0 ELSE val[i - 1] * 10 + DigitVal(k[i])
    IN  val[Len(k)]

\* str(n) / repr(n) of an int
RECURSIVE IntStr(_)
IntStr(n) ==
    IF n < 0 THEN <<"-">> \o IntStr(0 - n)
    ELSE IF n < 10 THEN <<Digits[n + 1]>>
    ELSE IntStr(n \div 10) \o <<Digits[(n % 10) + 1]>>

(***************************************************************************)
(* json.dumps / json.loads of the values a book holds                      *)
(***************************************************************************)
Quote == "\""
Backslash == "\\"

\* EscapeChar with the backslash left as it is
EscapeChar_quote_only(c) == IF c = Quote THEN <<Backslash, c>> ELSE <<c>>

\* json.dumps escapes the quote and the backslash inside a string
EscapeChar(c) == IF c = Quote \/ c = Backslash THEN <<Backslash, c>> ELSE <<c>>

JsonEscape(t) ==
    LET esc[i \in 0..Len(t)] ==
            IF i = 0 THEN <<>> ELSE esc[i - 1] \o EscapeChar(t[i])
    IN  esc[Len(t)]

JsonDumpsStr(t) == <<Quote>> \o JsonEscape(t) \o <<Quote>>

JsonDumpsInt(n) == IntStr(n)

\* the decoder's scan of the inside of a JSON string, left to right: the
\* characters decoded so far, whether a backslash is pending, and whether
\* the text is still well formed (no bare quote, every backslash followed
\* by an escapable character)
ScanStep(st, c) ==
    IF st.esc
    THEN [out |-> Append(st.out, c), esc |-> FALSE,
          ok |-> st.ok /\ c \in {Quote, Backslash}]
    ELSE IF c = Backslash THEN [st EXCEPT !.esc = TRUE]
    ELSE [out |-> Append(st.out, c), esc |-> FALSE, ok |-> st.ok /\ c # Quote]

ScanString(t) ==
    LET scan[i \in 0..Len(t)] ==
            IF i = 0 THEN [out |-> <<>>, esc |-> FALSE, ok |-> TRUE]
            ELSE ScanStep(scan[i - 1], t[i])
    IN  scan[Len(t)]

JsonStrOk(t) ==
    /\ Len(t) >= 2
    /\ t[1] = Quote
    /\ t[Len(t)] = Quote
    /\ LET st == ScanString(SubSeq(t, 2, Len(t) - 1)) IN st.ok /\ ~st.esc

JsonLoadsStr(t) == ScanString(SubSeq(t, 2, Len(t) - 1)).out

JsonIntOk(t) ==
    LET d == IF t # <<>> /\ t[1] = "-" THEN Tail(t) ELSE t
    IN  IsDigit(d) /\ (Len(d) > 1 => d[1] # "0")

JsonLoadsInt(t) ==
    IF t # <<>> /\ t[1] = "-" THEN 0 - IntOfDigits(Tail(t)) ELSE IntOfDigits(t)

(***************************************************************************)
(* Book                                                                    *)
(***************************************************************************)
\* "в наличии"
AVAILABLE == <<"v", " ", "nalichii">>
\* "выдана"
LOANED == <<"vydana">>

\* Book.to_dict followed by json.dumps: the line of one book
BookToLine(b) ==
    [id     |-> JsonDumpsInt(b.id),
     title  |-> JsonDumpsStr(b.title),
     author |-> JsonDumpsStr(b.author),
     year   |-> JsonDumpsInt(b.year),
     status |-> JsonDumpsStr(b.status)]

\* data[key] of the parsed object
Member(line, key) == line[key]
HasMember(line, key) == key \in DOMAIN line

\* json.loads(line) and Book.from_dict succeed on the line
LineOk(line) ==
    /\ \A k \in {"id", "title", "author", "year", "status"} : HasMember(line, k)
    /\ JsonIntOk(Member(line, "id"))
    /\ JsonStrOk(Member(line, "title"))
    /\ JsonStrOk(Member(line, "author"))
    /\ JsonIntOk(Member(line, "year"))
    /\ JsonStrOk(Member(line, "status"))

\* Book.from_dict(json.loads(line))
BookFromLine(line) ==
    [id     |-> JsonLoadsInt(Member(line, "id")),
     title  |-> JsonLoadsStr(Member(line, "title")),
     author |-> JsonLoadsStr(Member(line, "author")),
     year   |-> JsonLoadsInt(Member(line, "year")),
     status |-> JsonLoadsStr(Member(line, "status"))]

\* BookChangeStatus without the test of the status
BookChangeStatus_unchecked(b, status) == [b EXCEPT !.status = status]

\* Book.change_status: a status outside the two allowed ones leaves the book as it is
BookChangeStatus(b, status) ==
    IF status \notin {AVAILABLE, LOANED} THEN b
    ELSE [b EXCEPT !.status = status]

(***************************************************************************)
(* LibraryManager: the pure parts                                          *)
(***************************************************************************)
\* _load_books raises: some line does not parse
LoadFails(lines) == \E i \in 1..Len(lines) : ~LineOk(lines[i])

\* _load_books, the loop over the lines: one book appended per line
ReadLines(lines) ==
    LET books[i \in 0..Len(lines)] ==
            IF i = 0 THEN <<>> ELSE Append(books[i - 1], BookFromLine(lines[i]))
    IN  books[Len(lines)]

\* _load_books: an absent file gives the empty list
LoadBooks(exists, lines) == IF ~exists THEN <<>> ELSE ReadLines(lines)

\* _save_books run to completion: the file holds one line per book
SaveBooks(books) ==
    LET written[i \in 0..Len(books)] ==
            IF i = 0 THEN <<>> ELSE Append(written[i - 1], BookToLine(books[i]))
    IN  written[Len(books)]

UsedIds(books) == {books[i].id : i \in 1..Len(books)}

\* GenerateId as the number of books plus one
GenerateId_count(books) == Len(books) + 1

\* GenerateId as one past the largest id in use
GenerateId_max(books) ==
    LET used == {books[i].id : i \in 1..Len(books)}
    IN  IF used = {} THEN 1 ELSE (CHOOSE m \in used : \A u \in used : u <= m) + 1

\* _generate_id: new_id counts up from 1 while it is in use (it stops at
\* the latest one past the number of ids in use)
GenerateId(books) ==
    LET used == UsedIds(books)
        new_id[n \in 1..(Cardinality(used) + 1)] ==
            IF n \in used THEN new_id[n + 1] ELSE n
    IN  new_id[1]

\* add_book: the book that is appended
NewBook(books, title, author, year) ==
    [id |-> GenerateId(books), title |-> title, author |-> author,
     year |-> year, status |-> AVAILABLE]

\* RemoveId with the test turned around: the books with the id are the ones kept
RemoveId_kept(books, id) == SelectSeq(books, LAMBDA b : b.id = id)

\* RemoveId dropping every book up to the id
RemoveId_upto(books, id) == SelectSeq(books, LAMBDA b : b.id > id)

\* delete_book: updated_books
RemoveId(books, id) == SelectSeq(books, LAMBDA b : b.id # id)

\* DeleteNotFound comparing the lengths the wrong way
DeleteNotFound_less(books, updated) == Len(books) < Len(updated)

\* delete_book: the "not found" test
DeleteNotFound(books, updated) == Len(books) = Len(updated)

\* Matches without the comparison with the year
Matches_text_only(b, keyword) ==
    \/ StrIn(Lower(keyword), Lower(b.title))
    \/ StrIn(Lower(keyword), Lower(b.author))

\* find_books: the condition of the list comprehension
Matches(b, keyword) ==
    \/ StrIn(Lower(keyword), Lower(b.title))
    \/ StrIn(Lower(keyword), Lower(b.author))
    \/ (IsDigit(keyword) /\ IntOfDigits(keyword) = b.year)

\* find_books
FindBooks(books, keyword) == SelectSeq(books, LAMBDA b : Matches(b, keyword))

\* FirstWithId stopping at the first book whatever its id
FirstWithId_head(books, id) ==
    IF \E i \in 1..Len(books) : books[i].id = id THEN 1 ELSE 0

\* change_status: the index of the first book with the id, 0 when there is none
FirstWithId(books, id) ==
    IF \E i \in 1..Len(books) : books[i].id = id
    THEN CHOOSE i \in 1..Len(books) :
            /\ books[i].id = id
            /\ \A j \in 1..(i - 1) : books[j].id # id
    ELSE 0

\* change_status: the list after the loop
StatusApplied(books, id, status) ==
    LET k == FirstWithId(books, id)
    IN  IF k = 0 THEN books
        ELSE [books EXCEPT ![k] = BookChangeStatus(books[k], status)]

(***************************************************************************)
(* The calls main() makes, and their inputs                                *)
(***************************************************************************)
\* what main() passes to add_book
Inputs ==
    << [title |-> <<"D", "u", "n", "e">>, author |-> <<"S", "m", "i", "t", "h">>, year |-> 1965],
       [title |-> <<"1", "9", "8", "4">>, author |-> <<"O", "\"", "B", "\\">>, year |-> 2] >>

\* ids main() passes to delete_book and change_status: every id the store can
\* hold and one it cannot
Ids == 1..(MaxBooks + 1)

\* a status text that is not one of the two allowed
LOST == <<"l", "o", "s", "t">>
Statuses == {AVAILABLE, LOANED, LOST}

\* keywords main() passes to find_books
Keywords ==
    {IntStr(i) : i \in Ids} \cup
    { <<"1", "9", "8", "4">>, <<"1", "9", "6", "5">>, <<"0", "2">>, <<"s", "M", "I">> }

Call(op, id, text, input, report, io, result, after) ==
    [op |-> op, id |-> id, text |-> text, input |-> input, report |-> report,
     io |-> io, result |-> result, after |-> after]

NoCall == Call("none", 0, <<>>, 0, "none", "none", <<>>, 0)

\* an exception of _load_books leaves the call: nothing is written
Raised(op, id, text, input) ==
    /\ lastOp' = Call(op, id, text, input, "error", "none", <<>>, 0)
    /\ UNCHANGED <<fileExists, file>>

Init ==
    /\ fileExists = FALSE
    /\ file = <<>>
    /\ lastOp = NoCall
    /\ prevExists = FALSE
    /\ prevFile = <<>>
    /\ pc = "idle"
    /\ saveBooks = <<>>
    /\ saveLeft = <<>>
    /\ wbuf = <<>>

\* add_book: _generate_id, then one line appended (open mode "a" creates the file)
AddBook(n) ==
    /\ pc = "idle"
    /\ Len(file) < MaxBooks
    /\ prevExists' = fileExists
    /\ prevFile' = file
    /\ IF LoadFails(file) THEN Raised("add", 0, <<>>, n)
       ELSE LET books == LoadBooks(fileExists, file)
                book == NewBook(books, Inputs[n].title, Inputs[n].author, Inputs[n].year)
            IN  /\ fileExists' = TRUE
                /\ file' = Append(file, BookToLine(book))
                /\ lastOp' = Call("add", book.id, <<>>, n, "added", "append", <<>>, 0)
    /\ UNCHANGED <<pc, saveBooks, saveLeft, wbuf>>

\* delete_book, with _save_books run to its end
DeleteBook(id) ==
    /\ pc = "idle"
    /\ prevExists' = fileExists
    /\ prevFile' = file
    /\ IF LoadFails(file) THEN Raised("delete", id, <<>>, 0)
       ELSE LET books == LoadBooks(fileExists, file)
                updated == RemoveId(books, id)
            IN  IF DeleteNotFound(books, updated)
                THEN /\ lastOp' = Call("delete", id, <<>>, 0, "notfound", "none", <<>>, 0)
                     /\ UNCHANGED <<fileExists, file>>
                ELSE /\ fileExists' = TRUE
                     /\ file' = SaveBooks(updated)
                     /\ lastOp' = Call("delete", id, <<>>, 0, "deleted", "rewrite", <<>>, 0)
    /\ UNCHANGED <<pc, saveBooks, saveLeft, wbuf>>

\* what change_status reports for a book it found
StatusReport(status) == IF status \in {AVAILABLE, LOANED} THEN "changed" ELSE "invalid"

\* change_status, with _save_books run to its end
ChangeStatus(id, status) ==
    /\ pc = "idle"
    /\ prevExists' = fileExists
    /\ prevFile' = file
    /\ IF LoadFails(file) THEN Raised("status", id, status, 0)
       ELSE LET books == LoadBooks(fileExists, file)
            IN  IF FirstWithId(books, id) = 0
                THEN /\ lastOp' = Call("status", id, status, 0, "notfound", "none", <<>>, 0)
                     /\ UNCHANGED <<fileExists, file>>
                ELSE /\ fileExists' = TRUE
                     /\ file' = SaveBooks(StatusApplied(books, id, status))
                     /\ lastOp' = Call("status", id, status, 0, StatusReport(status),
                                       "rewrite", <<>>, 0)
    /\ UNCHANGED <<pc, saveBooks, saveLeft, wbuf>>

\* the id of the delete_book call made just before, when the keyword is its
\* decimal text; 0 otherwise
AfterDelete(keyword) ==
    IF lastOp.op = "delete" /\ lastOp.report # "error" /\ keyword = IntStr(lastOp.id)
    THEN lastOp.id ELSE 0

\* find_books
FindBooksCall(keyword) ==
    /\ pc = "idle"
    /\ prevExists' = fileExists
    /\ prevFile' = file
    /\ IF LoadFails(file) THEN Raised("find", 0, keyword, 0)
       ELSE /\ lastOp' = Call("find", 0, keyword, 0, "found", "none",
                              FindBooks(LoadBooks(fileExists, file), keyword),
                              AfterDelete(keyword))
            /\ UNCHANGED <<fileExists, file>>
    /\ UNCHANGED <<pc, saveBooks, saveLeft, wbuf>>

\* display_books: every book, in file order
DisplayBooks ==
    /\ pc = "idle"
    /\ prevExists' = fileExists
    /\ prevFile' = file
    /\ IF LoadFails(file) THEN Raised("list", 0, <<>>, 0)
       ELSE /\ lastOp' = Call("list", 0, <<>>, 0, "listed", "none",
                              LoadBooks(fileExists, file),
                              IF lastOp.op = "delete" /\ lastOp.report = "deleted"
                              THEN lastOp.id ELSE 0)
            /\ UNCHANGED <<fileExists, file>>
    /\ UNCHANGED <<pc, saveBooks, saveLeft, wbuf>>

Next ==
    \/ \E n \in 1..Len(Inputs) : AddBook(n)
    \/ \E id \in Ids : DeleteBook(id)
    \/ \E id \in Ids, status \in Statuses : ChangeStatus(id, status)
    \/ \E keyword \in Keywords : FindBooksCall(keyword)
    \/ DisplayBooks

Spec == Init /\ [][Next]_vars

(***************************************************************************)
(* The same program with _save_books taken one statement at a time         *)
(***************************************************************************)
\* delete_book up to its call of _save_books
DeleteBookBegin(id) ==
    /\ pc = "idle"
    /\ prevExists' = fileExists
    /\ prevFile' = file
    /\ UNCHANGED <<fileExists, file, wbuf>>
    /\ IF LoadFails(file)
       THEN /\ lastOp' = Call("delete", id, <<>>, 0, "error", "none", <<>>, 0)
            /\ UNCHANGED <<pc, saveBooks, saveLeft>>
       ELSE LET books == LoadBooks(fileExists, file)
                updated == RemoveId(books, id)
            IN  IF DeleteNotFound(books, updated)
                THEN /\ lastOp' = Call("delete", id, <<>>, 0, "notfound", "none", <<>>, 0)
                     /\ UNCHANGED <<pc, saveBooks, saveLeft>>
                ELSE /\ lastOp' = Call("delete", id, <<>>, 0, "deleted", "rewrite", <<>>, 0)
                     /\ pc' = "save_open"
                     /\ saveBooks' = updated
                     /\ saveLeft' = updated

\* change_status up to its call of _save_books
ChangeStatusBegin(id, status) ==
    /\ pc = "idle"
    /\ prevExists' = fileExists
    /\ prevFile' = file
    /\ UNCHANGED <<fileExists, file, wbuf>>
    /\ IF LoadFails(file)
       THEN /\ lastOp' = Call("status", id, status, 0, "error", "none", <<>>, 0)
            /\ UNCHANGED <<pc, saveBooks, saveLeft>>
       ELSE LET books == LoadBooks(fileExists, file)
            IN  IF FirstWithId(books, id) = 0
                THEN /\ lastOp' = Call("status", id, status, 0, "notfound", "none", <<>>, 0)
                     /\ UNCHANGED <<pc, saveBooks, saveLeft>>
                ELSE /\ lastOp' = Call("status", id, status, 0, StatusReport(status),
                                       "rewrite", <<>>, 0)
                     /\ pc' = "save_open"
                     /\ saveBooks' = StatusApplied(books, id, status)
                     /\ saveLeft' = StatusApplied(books, id, status)

\* _save_books: open(data_file, "w") creates the file or cuts it to length 0
SaveOpen ==
    /\ pc = "save_open"
    /\ fileExists' = TRUE
    /\ file' = <<>>
    /\ wbuf' = <<>>
    /\ pc' = "save_write"
    /\ UNCHANGED <<lastOp, prevExists, prevFile, saveBooks, saveLeft>>

\* _save_books: one turn of the loop, file.write of the next book's line
\* (into the buffer of the file object)
SaveWrite ==
    /\ pc = "save_write"
    /\ saveLeft # <<>>
    /\ wbuf' = Append(wbuf, BookToLine(Head(saveLeft)))
    /\ saveLeft' = Tail(saveLeft)
    /\ UNCHANGED <<fileExists, file, lastOp, prevExists, prevFile, pc, saveBooks>>

\* the file object empties its buffer into the file when the buffer is full;
\* when that happens depends on the sizes of the lines
SaveFlush ==
    /\ pc = "save_write"
    /\ wbuf # <<>>
    /\ file' = file \o wbuf
    /\ wbuf' = <<>>
    /\ UNCHANGED <<fileExists, lastOp, prevExists, prevFile, pc, saveBooks, saveLeft>>

\* _save_books: the end of the with block closes the file, which empties the buffer
SaveClose ==
    /\ pc = "save_write"
    /\ saveLeft = <<>>
    /\ file' = file \o wbuf
    /\ wbuf' = <<>>
    /\ pc' = "idle"
    /\ UNCHANGED <<fileExists, lastOp, prevExists, prevFile, saveBooks, saveLeft>>

StepNext ==
    \/ \E n \in 1..Len(Inputs) : AddBook(n)
    \/ \E id \in Ids : DeleteBookBegin(id)
    \/ \E id \in Ids, status \in Statuses : ChangeStatusBegin(id, status)
    \/ \E keyword \in Keywords : FindBooksCall(keyword)
    \/ DisplayBooks
    \/ SaveOpen
    \/ SaveWrite
    \/ SaveFlush
    \/ SaveClose

StepSpec == Init /\ [][StepNext]_vars

(***************************************************************************)
(* Properties                                                              *)
(***************************************************************************)
\* the records of the store now, and when the last call started
Books == LoadBooks(fileExists, file)
PrevBooks == LoadBooks(prevExists, prevFile)

\* the last call ran to its end without an exception
Returned(op) == pc = "idle" /\ lastOp.op = op /\ lastOp.report # "error"

\* C1: in every state reached from an absent file by add, delete and
\* changeStatus calls, no two records of the store have the same id and
\* every id is a positive integer.
C1_UniquePositiveIds ==
    pc = "idle" =>
        LET books == Books
        IN  /\ ~LoadFails(file)
            /\ \A i \in 1..Len(books) : books[i].id \in Nat /\ books[i].id >= 1
            /\ \A i, j \in 1..Len(books) : i # j => books[i].id # books[j].id

\* an add that came after a delete: the store holds ids 2, 1 in that order
C1_Witness ==
    /\ Returned("add")
    /\ Len(Books) = 2
    /\ Books[1].id = 2
    /\ Books[2].id = 1

\* C2: add gives the new record the smallest positive integer that is the
\* id of no record in the store when add is called (1 on an empty store),
\* and status AVAILABLE.
C2_AddSmallestFreeId ==
    Returned("add") =>
        LET before == PrevBooks
            books == Books
            new == books[Len(books)]
        IN  /\ Len(books) = Len(before) + 1
            /\ new.id >= 1
            /\ \A i \in 1..Len(before) : before[i].id # new.id
            /\ \A k \in 1..(new.id - 1) : \E i \in 1..Len(before) : before[i].id = k
            /\ (before = <<>> => new.id = 1)
            /\ new.status = AVAILABLE

\* an add on a store that holds only id 2: the id of the deleted record 1 is used again
C2_Witness ==
    /\ Returned("add")
    /\ Len(PrevBooks) = 1
    /\ PrevBooks[1].id = 2
    /\ Books[2].id = 1

\* C3: changeStatus with a status outside {AVAILABLE, LOANED} leaves the
\* record sequence as it was, whether or not a record has the id.
C3_InvalidStatusNoMutation ==
    (Returned("status") /\ lastOp.text \notin {AVAILABLE, LOANED}) =>
        /\ Books = PrevBooks
        /\ lastOp.report \in {"invalid", "notfound"}

\* a rejected status for a record that is in the store, whose status is LOANED
C3_Witness ==
    /\ Returned("status")
    /\ lastOp.text = LOST
    /\ lastOp.report = "invalid"
    /\ \E i \in 1..Len(Books) : Books[i].id = lastOp.id /\ Books[i].status = LOANED

\* C4: delete and changeStatus with an id that no record has report "not
\* found", leave the record sequence as it was and do not rewrite the file.
C4_UnknownIdNoMutation ==
    ((Returned("delete") \/ Returned("status"))
        /\ \A i \in 1..Len(PrevBooks) : PrevBooks[i].id # lastOp.id) =>
        /\ lastOp.report = "notfound"
        /\ lastOp.io = "none"
        /\ Books = PrevBooks
        /\ fileExists = prevExists
        /\ file = prevFile

\* a delete of an id that a store of two records does not hold
C4_Witness ==
    /\ Returned("delete")
    /\ lastOp.report = "notfound"
    /\ Len(Books) = 2

\* C5 as stated: find with the decimal text of id, called right after
\* delete(id), returns the empty sequence.
C5_DeleteThenFindEmpty ==
    (Returned("find") /\ lastOp.after # 0) => lastOp.result = <<>>

\* C5 as amended: find with the decimal text of id, called right after
\* delete(id), returns no record whose id is id.
C5_DeleteThenFindOmitsId ==
    (Returned("find") /\ lastOp.after # 0) =>
        \A i \in 1..Len(lastOp.result) : lastOp.result[i].id # lastOp.after

\* find right after a delete, with its id as keyword, that returns a record
C5_Witness ==
    /\ Returned("find")
    /\ lastOp.after # 0
    /\ lastOp.result # <<>>

\* the keyword, a string of digits, matches the record by year or by text
NumericMatch(b, keyword) ==
    \/ b.year = IntOfDigits(keyword)
    \/ StrIn(keyword, Lower(b.title))
    \/ StrIn(keyword, Lower(b.author))

\* seq holds exactly the elements of all at the positions in keep, in order
SubsequenceAt(seq, all, keep) ==
    /\ Len(seq) = Cardinality(keep)
    /\ \A i \in keep : seq[Cardinality({j \in keep : j <= i})] = all[i]

\* C6 as stated: for a keyword of digits, find returns only records whose
\* year is that number, as a subsequence of the store in store order.
C6_NumericFindOnlyYear ==
    (Returned("find") /\ IsDigit(lastOp.text)) =>
        /\ \A i \in 1..Len(lastOp.result) :
              lastOp.result[i].year = IntOfDigits(lastOp.text)
        /\ \E keep \in SUBSET (1..Len(Books)) : SubsequenceAt(lastOp.result, Books, keep)

\* C6 as amended: for a keyword of digits, find returns exactly the records
\* whose year is that number or whose title or author contains the keyword,
\* as a subsequence of the store in store order.
C6_NumericFindYearOrText ==
    (Returned("find") /\ IsDigit(lastOp.text)) =>
        LET books == Books
        IN  SubsequenceAt(lastOp.result, books,
                          {i \in 1..Len(books) : NumericMatch(books[i], lastOp.text)})

\* a find with a keyword of digits that returns a record by its year and
\* passes over another record
C6_Witness ==
    /\ Returned("find")
    /\ IsDigit(lastOp.text)
    /\ Len(Books) = 2
    /\ Len(lastOp.result) = 1
    /\ lastOp.result[1].year = IntOfDigits(lastOp.text)
    /\ ~StrIn(lastOp.text, Lower(lastOp.result[1].title))

\* C7: at every point of a running save the file holds either the complete
\* record sequence it held before or the complete new one.
C7_SaveIsAtomic ==
    pc # "idle" =>
        \/ (fileExists = prevExists /\ file = prevFile)
        \/ (fileExists /\ file = SaveBooks(saveBooks))

\* C8: loading the file and saving the loaded records gives the same lines
\* and the same records again, and an absent file loads as the empty sequence.
C8_SaveLoadRoundTrip ==
    pc = "idle" =>
        /\ ~LoadFails(file)
        /\ fileExists => SaveBooks(LoadBooks(TRUE, file)) = file
        /\ ~LoadFails(SaveBooks(Books))
        /\ LoadBooks(TRUE, SaveBooks(Books)) = Books
        /\ ~fileExists => Books = <<>>

\* a call that loaded two records, one with a quote and a backslash in its
\* author, and saved them back unchanged
C8_Witness ==
    /\ Returned("status")
    /\ lastOp.report = "invalid"
    /\ Len(Books) = 2
    /\ \E i \in 1..Len(Books) : Books[i].author = <<"O", "\"", "B", "\\">>

C10_StatusChangeFrame ==
    (/\ Returned("status")
     /\ lastOp.text \in {AVAILABLE, LOANED}
     /\ \E i \in 1..Len(PrevBooks) : PrevBooks[i].id = lastOp.id) =>
        /\ lastOp.report = "changed"
        /\ Len(Books) = Len(PrevBooks)
        /\ \A i \in 1..Len(PrevBooks) :
              Books[i] = IF PrevBooks[i].id = lastOp.id
                         THEN [PrevBooks[i] EXCEPT !.status = lastOp.text]
                         ELSE PrevBooks[i]

\* the second of two records goes from AVAILABLE to LOANED
C10_Witness ==
    /\ Returned("status")
    /\ lastOp.text = LOANED
    /\ Len(PrevBooks) = 2
    /\ PrevBooks[2].id = lastOp.id
    /\ PrevBooks[2].status = AVAILABLE
    /\ Books[2].status = LOANED

====
